---- MODULE Spec2Model ----
(***************************************************************************)
(* The auto-login token handoff of the order-management application       *)
(* ("Website 2", server.js) and of its issuer (shopify-app-auto-login.js). *)
(*                                                                         *)
(* Time is the value of Date.now() in milliseconds.  A JWT is a record     *)
(* [parts, payload, sig]; the HS256 signature is symbolic: the pair of the *)
(* payload that was signed and the key that signed it.  JavaScript's       *)
(* undefined is a sentinel of the field's type (NoId, NoName, NoIat,       *)
(* NoExp).                                                                 *)
(***************************************************************************)
EXTENDS Integers, Sequences, FiniteSets, TLC

(***************************************************************************)
(* Bounds of the model.                                                    *)
(***************************************************************************)
MaxTicks == 1
MaxIssued == 1
MaxSid == 2
MaxBatches == 1
MaxReqs == 2
MaxInFlight == 1
MaxEdits == 1

(***************************************************************************)
(* Program constants.                                                      *)
(***************************************************************************)
TokenLifetime == 300
MaxTokenAge == 300
BlacklistCap == 1000
BlacklistKeep == 500

JWT_SECRET == "shared-jwt-secret"
OtherSecret == "some-other-secret"

NoId == -1
NoIat == -1
NoExp == -1
NoNbf == -1
NoTime == -1
NoSid == 0
NoName == "<undefined>"

Clients == {"c1", "c2"}
Reqs == 1..MaxReqs
Sids == 1..MaxSid

(* The clock advances by five minutes or by half a second more. *)
TickSteps == {300000, 300500}

(* The sizes of the bursts of auto-logins by other clients. *)
BatchSizes == {500, 1000}

(***************************************************************************)
(* JavaScript truthiness of the values the handlers test.                  *)
(***************************************************************************)
TruthyId(id) == id # NoId /\ id # 0
TruthyName(name) == name # NoName /\ name # ""

(* Math.floor(Date.now() / 1000) *)
NowSeconds(nowMs) == nowMs \div 1000

(***************************************************************************)
(* jsonwebtoken.                                                           *)
(***************************************************************************)
HS256(payload, key) == [signed |-> payload, key |-> key]

(* jwt.sign(payload, secret, {expiresIn, issuer, audience}): the payload's *)
(* iat is the timestamp, exp is timestamp + expiresIn; no notBefore option *)
(* is given, so the payload has no nbf.                                    *)
jwtSign(claims, secret, expiresIn, issuer, audience, nowMs) ==
    LET timestamp == IF claims.iat # NoIat THEN claims.iat ELSE NowSeconds(nowMs)
        payload == [userId |-> claims.userId,
                    username |-> claims.username,
                    shopDomain |-> claims.shopDomain,
                    purpose |-> claims.purpose,
                    website |-> claims.website,
                    iat |-> timestamp,
                    exp |-> timestamp + expiresIn,
                    nbf |-> NoNbf,
                    iss |-> issuer,
                    aud |-> audience]
    IN  [parts |-> 3, payload |-> payload, sig |-> HS256(payload, secret)]

JwtOk(payload) == [ok |-> TRUE, decoded |-> payload, error |-> ""]
JwtError(token, msg) == [ok |-> FALSE, decoded |-> token.payload, error |-> msg]

(* jwt.decode in the place of jwt.verify: the signature is not checked. *)
jwtDecodeOnly(token, secret, nowMs) ==
    IF token.parts # 3 THEN JwtError(token, "jwt malformed")
    ELSE IF token.payload.nbf # NoNbf /\ token.payload.nbf > NowSeconds(nowMs)
         THEN JwtError(token, "jwt not active")
    ELSE IF token.payload.exp # NoExp /\ NowSeconds(nowMs) >= token.payload.exp
         THEN JwtError(token, "jwt expired")
    ELSE JwtOk(token.payload)

(* jwt.verify(token, secret) without options: structure, signature, nbf,   *)
(* exp.                                                                    *)
(* No audience, issuer or maxAge option is given, so none is checked.      *)
jwtVerify(token, secret, nowMs) ==
    IF token.parts # 3 THEN JwtError(token, "jwt malformed")
    ELSE IF token.sig # HS256(token.payload, secret)
         THEN JwtError(token, "invalid signature")
    ELSE IF token.payload.nbf # NoNbf /\ token.payload.nbf > NowSeconds(nowMs)
         THEN JwtError(token, "jwt not active")
    ELSE IF token.payload.exp # NoExp /\ NowSeconds(nowMs) >= token.payload.exp
         THEN JwtError(token, "jwt expired")
    ELSE JwtOk(token.payload)

(***************************************************************************)
(* The issuer: generateAutoLoginToken of the Shopify app.                  *)
(***************************************************************************)
generateAutoLoginToken(user, nowMs) ==
    jwtSign([userId |-> user.id,
             username |-> IF TruthyName(user.username) THEN user.username
                          ELSE user.email,
             shopDomain |-> user.shopDomain,
             purpose |-> "auto-login",
             website |-> "shopify-app",
             iat |-> NowSeconds(nowMs)],
            JWT_SECRET, TokenLifetime, "shopify-app", "website2", nowMs)

(* generateAutoLoginToken of the implementation guide: it validates the    *)
(* user first.  The result is the token, or NoToken when it throws.        *)
GuideRejects(user) == ~TruthyId(user.id) /\ ~TruthyName(user.username)

(***************************************************************************)
(* The replay guard.  tokenBlacklist is a JavaScript Set: its elements in  *)
(* insertion order.  It is kept run-length encoded: an entry is one token  *)
(* presented to this model's clients (n = 1) or a run of n distinct tokens *)
(* consumed by other clients (tok = OtherTokens).                          *)
(***************************************************************************)
NoPayload ==
    [userId |-> NoId, username |-> NoName, shopDomain |-> NoName,
     purpose |-> NoName, website |-> NoName, iat |-> NoIat, exp |-> NoExp,
     nbf |-> NoNbf, iss |-> NoName, aud |-> NoName]

(* req.query.token is undefined. *)
NoToken == [parts |-> 0, payload |-> NoPayload, sig |-> HS256(NoPayload, "")]

(* Stands for the valid tokens of clients outside the model. *)
OtherTokens == [parts |-> 3, payload |-> NoPayload, sig |-> HS256(NoPayload, JWT_SECRET)]

RECURSIVE BlacklistSize(_)
BlacklistSize(bl) ==
    IF bl = <<>> THEN 0 ELSE Head(bl).n + BlacklistSize(Tail(bl))

(* tokenBlacklist.has(token) *)
BlacklistHas(bl, token) == \E i \in 1..Len(bl) : bl[i].tok = token

(* tokenBlacklist.add(token): a Set keeps one copy, at its first position. *)
BlacklistAdd(bl, token) ==
    IF BlacklistHas(bl, token) THEN bl ELSE Append(bl, [tok |-> token, n |-> 1])

(* k further tokens of other clients, none of them in the set yet. *)
BlacklistAddOthers(bl, k) ==
    IF k = 0 THEN bl
    ELSE IF bl # <<>> /\ bl[Len(bl)].tok = OtherTokens
         THEN [bl EXCEPT ![Len(bl)].n = @ + k]
    ELSE Append(bl, [tok |-> OtherTokens, n |-> k])

(* The elements of the array after its first d. *)
RECURSIVE DropFirst(_, _)
DropFirst(bl, d) ==
    IF d = 0 \/ bl = <<>> THEN bl
    ELSE IF Head(bl).n <= d THEN DropFirst(Tail(bl), d - Head(bl).n)
    ELSE <<[Head(bl) EXCEPT !.n = @ - d]>> \o Tail(bl)

(* No cleanup: the set only grows. *)
CleanupNever(bl) == bl

(* Array.from(tokenBlacklist).slice(-500), added again to the cleared set. *)
Cleanup(bl) ==
    IF BlacklistSize(bl) > BlacklistCap
    THEN DropFirst(bl, BlacklistSize(bl) - BlacklistKeep)
    ELSE bl

(* blacklistToken on an array in the place of the Set: push, then cleanup. *)
BlacklistTokenAsList(bl, token) == Cleanup(Append(bl, [tok |-> token, n |-> 1]))

(* blacklistToken that cleans up but does not add the token. *)
BlacklistTokenWithoutAdd(bl, token) == Cleanup(bl)

blacklistToken(bl, token) == Cleanup(BlacklistAdd(bl, token))

(* blacklistToken called for m further tokens of other clients, one after  *)
(* the other: up to the call that triggers the cleanup nothing is dropped, *)
(* so the calls are taken in runs that end at a cleanup.                   *)
RECURSIVE BlacklistOthers(_, _)
BlacklistOthers(bl, m) ==
    IF m = 0 THEN bl
    ELSE LET room == BlacklistCap + 1 - BlacklistSize(bl)
             k == IF m < room THEN m ELSE room
         IN  BlacklistOthers(Cleanup(BlacklistAddOthers(bl, k)), m - k)

(***************************************************************************)
(* verifyJWT: the decoded payload, or the message of the error it throws.  *)
(***************************************************************************)
(* Date.now() / 1000 - decoded.iat > 5 * 60, in milliseconds; with iat     *)
(* undefined the age is NaN and the comparison is false.                   *)
(* The age check left to the envelope's exp. *)
TokenTooOldByEnvelope(decoded, nowMs) ==
    decoded.exp # NoExp /\ NowSeconds(nowMs) >= decoded.exp

TokenTooOld(decoded, nowMs) ==
    decoded.iat # NoIat /\ nowMs - decoded.iat * 1000 > MaxTokenAge * 1000

MissingIdentification(decoded) ==
    ~TruthyId(decoded.userId) /\ ~TruthyName(decoded.username)

VerifyFailed(token, msg) ==
    [ok |-> FALSE, decoded |-> token.payload,
     error |-> "Token verification failed: " \o msg]

(* verifyJWT with the blacklist consulted last. *)
verifyJWTBlacklistLast(bl, token, nowMs) ==
    LET v == jwtVerify(token, JWT_SECRET, nowMs)
    IN  IF ~v.ok THEN VerifyFailed(token, v.error)
        ELSE IF MissingIdentification(v.decoded)
             THEN VerifyFailed(token, "Invalid token: missing user identification")
        ELSE IF TokenTooOld(v.decoded, nowMs)
             THEN VerifyFailed(token, "Token has expired")
        ELSE IF BlacklistHas(bl, token)
             THEN VerifyFailed(token, "Token has already been used")
        ELSE [ok |-> TRUE, decoded |-> v.decoded, error |-> ""]

(* verifyJWT that accepts only tokens minted for auto-login. *)
verifyJWTForAutoLoginOnly(bl, token, nowMs) ==
    IF BlacklistHas(bl, token)
    THEN VerifyFailed(token, "Token has already been used")
    ELSE LET v == jwtVerify(token, JWT_SECRET, nowMs)
         IN  IF ~v.ok THEN VerifyFailed(token, v.error)
             ELSE IF v.decoded.purpose # "auto-login"
                  THEN VerifyFailed(token, "Invalid token purpose")
             ELSE IF MissingIdentification(v.decoded)
                  THEN VerifyFailed(token, "Invalid token: missing user identification")
             ELSE IF TokenTooOld(v.decoded, nowMs)
                  THEN VerifyFailed(token, "Token has expired")
             ELSE [ok |-> TRUE, decoded |-> v.decoded, error |-> ""]

verifyJWT(bl, token, nowMs) ==
    IF BlacklistHas(bl, token)
    THEN VerifyFailed(token, "Token has already been used")
    ELSE LET v == jwtVerify(token, JWT_SECRET, nowMs)
         IN  IF ~v.ok THEN VerifyFailed(token, v.error)
             ELSE IF MissingIdentification(v.decoded)
                  THEN VerifyFailed(token, "Invalid token: missing user identification")
             ELSE IF TokenTooOld(v.decoded, nowMs)
                  THEN VerifyFailed(token, "Token has expired")
             ELSE [ok |-> TRUE, decoded |-> v.decoded, error |-> ""]

(***************************************************************************)
(* The users table and bcrypt.                                             *)
(***************************************************************************)
bcryptHash(password) == [algorithm |-> "bcrypt", of |-> password]
bcryptCompare(password, hash) == hash = bcryptHash(password)

(* The rows of the users table: the admin user of initializeAdminUser and  *)
(* one more account.                                                       *)
InitUsers ==
    {[id |-> 1, username |-> "admin", password |-> bcryptHash("admin-pw")],
     [id |-> 2, username |-> "staff", password |-> bcryptHash("staff-pw")]}

(* db.get calls back with undefined when no row matches. *)
NoUser == [id |-> NoId, username |-> NoName, password |-> bcryptHash("")]

(* SELECT * FROM users WHERE id = ? *)
UserById(rows, id) ==
    IF \E u \in rows : u.id = id THEN CHOOSE u \in rows : u.id = id ELSE NoUser

(* SELECT * FROM users WHERE username = ? *)
UserByName(rows, name) ==
    IF \E u \in rows : u.username = name
    THEN CHOOSE u \in rows : u.username = name ELSE NoUser

(* A lookup that falls back to the first account when nothing matches. *)
LookupUserOrFirst(rows, decoded) ==
    LET byId == UserById(rows, decoded.userId)
    IN  IF TruthyId(decoded.userId) /\ byId # NoUser THEN byId
        ELSE UserById(rows, 1)

(* The lookup of GET /auto-login: by id when the token has one, else by    *)
(* username when the token has one.                                        *)
LookupUser(rows, decoded) ==
    IF TruthyId(decoded.userId) THEN UserById(rows, decoded.userId)
    ELSE IF TruthyName(decoded.username) THEN UserByName(rows, decoded.username)
    ELSE NoUser

(* authenticateUser: the row, or null. *)
authenticateUser(rows, username, password) ==
    LET row == UserByName(rows, username)
    IN  IF row # NoUser /\ bcryptCompare(password, row.password) THEN row ELSE NoUser

(***************************************************************************)
(* Sessions (express-session).                                             *)
(***************************************************************************)
EmptySession ==
    [userId |-> NoId, username |-> NoName, autoLogin |-> FALSE, loginTime |-> NoTime]

(* req.session && req.session.userId *)
Authenticated(sess) == TruthyId(sess.userId)

(* The session data GET /auto-login writes for the user it found. *)
AutoLoginSession(user, nowMs) ==
    [userId |-> user.id, username |-> user.username, autoLogin |-> TRUE,
     loginTime |-> nowMs]

(* POST /login that starts the session's attributes afresh. *)
PasswordLoginSessionReset(sess, user) ==
    [userId |-> user.id, username |-> user.username, autoLogin |-> FALSE,
     loginTime |-> NoTime]

(* The session data POST /login writes. *)
PasswordLoginSession(sess, user) ==
    [sess EXCEPT !.userId = user.id, !.username = user.username]

(***************************************************************************)
(* Redirect targets.                                                       *)
(***************************************************************************)
LoginError(code) == "/login?error=" \o code
DashboardUrl == "/dashboard"
AutoLoginSuccessUrl == "/dashboard?auto_login=success"

(* A redirect that tells an expired token from the other failures. *)
RedirectByFailureKind(error) ==
    IF error \in {"Token verification failed: jwt expired",
                  "Token verification failed: Token has expired"}
    THEN LoginError("expired_token")
    ELSE LoginError("invalid_token")

(* A redirect that carries the message of the error. *)
RedirectWithErrorText(error) == LoginError(error)

(* The redirect of GET /auto-login when verifyJWT throws. *)
VerificationFailureRedirect(error) == LoginError("invalid_token")

(* The presence check left out. *)
TokenNeverMissing(token) == FALSE

(* !token *)
TokenMissing(token) == token = NoToken

(***************************************************************************)
(* The subjects the issuer is asked to mint a token for, and the tokens    *)
(* that reach the verifier from elsewhere.                                 *)
(***************************************************************************)
IssuerUsers ==
    {[id |-> 1, username |-> "admin", email |-> NoName, shopDomain |-> "shop"],
     [id |-> 999, username |-> "ghost", email |-> NoName, shopDomain |-> "shop"],
     [id |-> NoId, username |-> NoName, email |-> "admin", shopDomain |-> "shop"],
     [id |-> NoId, username |-> NoName, email |-> NoName, shopDomain |-> NoName]}

AdminClaims ==
    [userId |-> 1, username |-> "admin", shopDomain |-> "shop",
     purpose |-> "auto-login", website |-> "shopify-app", iat |-> 0]

(* Signed with a secret that is not the verifier's. *)
ForeignToken ==
    jwtSign(AdminClaims, OtherSecret, TokenLifetime, "shopify-app", "website2", 0)

(* Signed with the shared secret for another audience. *)
WrongAudienceToken ==
    jwtSign(AdminClaims, JWT_SECRET, TokenLifetime, "shopify-app", "another-site", 0)

(* Signed with the shared secret by an unexpected issuer. *)
WrongIssuerToken ==
    jwtSign(AdminClaims, JWT_SECRET, TokenLifetime, "unknown-app", "website2", 0)

(* Signed with the shared secret and expiresIn: '1h'. *)
LongLivedToken ==
    jwtSign(AdminClaims, JWT_SECRET, 60 * 60, "shopify-app", "website2", 0)

(* Not three dot-separated parts. *)
MalformedToken == [parts |-> 1, payload |-> NoPayload, sig |-> HS256(NoPayload, "")]

(* The payload of a token for the unknown user rewritten to name admin,    *)
(* the signature left as it was.                                           *)
TamperedToken ==
    LET ghost == jwtSign([AdminClaims EXCEPT !.userId = 999, !.username = "ghost"],
                         JWT_SECRET, TokenLifetime, "shopify-app", "website2", 0)
    IN  [ghost EXCEPT !.payload.userId = 1, !.payload.username = "admin"]

(* Signed with the shared secret, expiresIn: '1h' and notBefore: '5m'. *)
NotYetActiveToken ==
    LET payload == [LongLivedToken.payload EXCEPT !.nbf = 300]
    IN  [parts |-> 3, payload |-> payload, sig |-> HS256(payload, JWT_SECRET)]

(* A token of the issuer for a user whose id is the issuer's own (it is no *)
(* id of the users table) and whose username is that of a local account.   *)
UsernameOnlyMatchToken ==
    jwtSign([AdminClaims EXCEPT !.userId = 999], JWT_SECRET, TokenLifetime,
            "shopify-app", "website2", 0)

(* The payload signed with the shared secret. *)
SignedToken(payload) ==
    [parts |-> 3, payload |-> payload, sig |-> HS256(payload, JWT_SECRET)]

(* Signed with the shared secret and expiresIn: '1h', with neither userId  *)
(* nor username.                                                           *)
SubjectlessLongLivedToken ==
    SignedToken([LongLivedToken.payload EXCEPT !.userId = NoId, !.username = NoName])

(* Signed with the shared secret by a party whose clock is an hour ahead:  *)
(* iat lies an hour after the verifier's start, exp an hour later.         *)
FutureIatToken ==
    SignedToken([LongLivedToken.payload EXCEPT !.iat = 60 * 60, !.exp = 2 * 60 * 60])

(* Signed with the shared secret and noTimestamp: the payload has no iat. *)
NoIatToken == SignedToken([LongLivedToken.payload EXCEPT !.iat = NoIat])

(* Signed with the shared secret for another purpose, by another website. *)
OtherPurposeToken ==
    SignedToken([LongLivedToken.payload EXCEPT !.purpose = "password-reset",
                                               !.website = "another-site"])

CraftedTokens ==
    {ForeignToken, WrongAudienceToken, WrongIssuerToken, LongLivedToken,
     MalformedToken, TamperedToken, NotYetActiveToken, UsernameOnlyMatchToken,
     SubjectlessLongLivedToken, FutureIatToken, NoIatToken, OtherPurposeToken}

(* What the verifier's callers put into the envelope. *)
ExpectedAudience == "website2"
ExpectedIssuers == {"shopify-app", "website1"}

(***************************************************************************)
(* State.                                                                  *)
(***************************************************************************)
VARIABLES
    now,             \* Date.now(), milliseconds
    ticks,           \* how often the clock has advanced
    issued,          \* the tokens the issuer has handed out
    foreign,         \* the token an outside party brings to the verifier
    tokenBlacklist,  \* the replay guard
    batches,         \* how many bursts of other clients' auto-logins ran
    users,           \* the users table
    store,           \* the session store: session id -> session data
    cookie,          \* the session id each client's browser holds
    nextSid,         \* the next fresh session id
    requests,        \* the GET /auto-login requests in flight or answered
    autoLogins,      \* the auto-logins that completed (the log of line 526)
    pages            \* the last answer of a protected route to each client

VARIABLES
    webhookSecret,   \* SHOPIFY_CONFIG.webhookSecret
    shopOrders,      \* the orders as the shop holds them: id -> order
    edits,           \* how often the merchant has edited an order's tags
    hooks,           \* the webhooks the shop has sent and the server not yet taken
    tagUpdates,      \* the PUT requests of updateOrderTags not yet answered
    orderStorage,    \* the dashboard's orders: id -> stored data
    emails,          \* the calls of sendDonationConfirmationEmail
    hookAnswer       \* the last webhook request and the status it was answered with

shopVars == <<webhookSecret, shopOrders, edits, hooks, tagUpdates, orderStorage, emails,
              hookAnswer>>

loginVars == <<now, ticks, issued, foreign, tokenBlacklist, batches, users, store, cookie,
               nextSid, requests, autoLogins, pages>>

vars == <<now, ticks, issued, foreign, tokenBlacklist, batches, users, store, cookie,
          nextSid, requests, autoLogins, pages, shopVars>>

(* The orders of the shop, the webhook secret, and a request's signature. *)
Orders == {1001}

NoOrder ==
    [id |-> 0, line_items |-> <<>>, tags |-> <<>>, email |-> "", tagged |-> FALSE,
     fulfilled |-> FALSE]

WebhookSecret == "whsec"
NoSecret == ""

(* A request without the X-Shopify-Hmac-Sha256 header. *)
MissingSignature(data) == [given |-> FALSE, body |-> data, key |-> "", len |-> 0]

NoAnswer ==
    [topic |-> "", body |-> NoOrder, signature |-> MissingSignature(NoOrder), status |-> 0]

IdleRequest ==
    [pc |-> "idle", client |-> "c1", token |-> NoToken, arrivedSid |-> NoSid,
     sid |-> NoSid, sess |-> EmptySession, decoded |-> NoPayload, verified |-> FALSE,
     user |-> NoUser, redirect |-> "", error |-> ""]

Init ==
    /\ now = 0
    /\ ticks = 0
    /\ issued = {}
    /\ foreign \in CraftedTokens
    /\ tokenBlacklist = <<>>
    /\ batches = 0
    /\ users = InitUsers
    /\ store = <<>>
    /\ cookie = [c \in Clients |-> NoSid]
    /\ nextSid = 1
    /\ requests = [r \in Reqs |-> IdleRequest]
    /\ autoLogins = {}
    /\ pages = [c \in Clients |-> ""]
    /\ webhookSecret \in {WebhookSecret, NoSecret}
    /\ shopOrders = [o \in Orders |-> NoOrder]
    /\ edits = 0
    /\ hooks = {}
    /\ tagUpdates = <<>>
    /\ orderStorage = <<>>
    /\ emails = 0
    /\ hookAnswer = NoAnswer

(* A destroy that leaves the store as it is. *)
StoreDestroyNothing(st, sid) == st

(* The store without the session sid (store.destroy). *)
StoreDestroy(st, sid) == [s \in (DOMAIN st) \ {sid} |-> st[s]]

(* The store with sess saved under sid (store.set). *)
StoreSet(st, sid, sess) ==
    [s \in (DOMAIN st) \cup {sid} |-> IF s = sid THEN sess ELSE st[s]]

(* The answer of a request: the redirect, nothing else pending. *)
Respond(req, url) ==
    [IdleRequest EXCEPT !.pc = "done", !.token = req.token,
                        !.verified = req.verified, !.error = req.error,
                        !.redirect = url]

(***************************************************************************)
(* The clock.                                                              *)
(***************************************************************************)
Tick(d) ==
    /\ ticks < MaxTicks
    /\ now' = now + d
    /\ ticks' = ticks + 1
    /\ UNCHANGED <<issued, foreign, tokenBlacklist, batches, users, store, cookie, nextSid,
                   requests, autoLogins, pages,
                   shopVars>>

(***************************************************************************)
(* The issuer hands the auto-login URL of a token for user to a browser.   *)
(***************************************************************************)
IssueToken(user) ==
    /\ Cardinality(issued) < MaxIssued
    /\ issued' = issued \cup {generateAutoLoginToken(user, now)}
    /\ UNCHANGED <<now, ticks, foreign, tokenBlacklist, batches, users, store, cookie, nextSid,
                   requests, autoLogins, pages,
                   shopVars>>

(***************************************************************************)
(* m clients outside the model each complete an auto-login with a valid    *)
(* token of their own: every one of the m requests calls blacklistToken.   *)
(***************************************************************************)
OtherAutoLogins(m) ==
    /\ batches < MaxBatches
    /\ batches' = batches + 1
    /\ tokenBlacklist' = BlacklistOthers(tokenBlacklist, m)
    /\ UNCHANGED <<now, ticks, issued, foreign, users, store, cookie, nextSid, requests,
                   autoLogins, pages,
                   shopVars>>

(***************************************************************************)
(* GET /auto-login?token=...                                               *)
(***************************************************************************)
(* The request reaches the server; the session middleware loads the        *)
(* session the cookie names, or generates a new, empty one, whose id (in   *)
(* no cookie and not in the store) is written NoSid.                       *)
InFlight == {r \in Reqs : requests[r].pc \notin {"idle", "done"}}

(* The slot a new request takes: the first that was never used, or, when   *)
(* all were, any whose request has been answered.                          *)
FreeSlot(r) ==
    /\ requests[r].pc \in {"idle", "done"}
    /\ \A q \in Reqs : requests[q].pc = "idle" => r <= q

Receive(r, c, token) ==
    /\ FreeSlot(r)
    /\ IF cookie[c] \in DOMAIN store
       THEN /\ requests' = [requests EXCEPT ![r] =
                    [IdleRequest EXCEPT !.pc = "start", !.client = c, !.token = token,
                                        !.arrivedSid = cookie[c], !.sid = cookie[c],
                                        !.sess = store[cookie[c]]]]
            /\ UNCHANGED nextSid
       ELSE /\ requests' = [requests EXCEPT ![r] =
                    [IdleRequest EXCEPT !.pc = "start", !.client = c, !.token = token]]
            /\ UNCHANGED nextSid
    /\ UNCHANGED <<now, ticks, issued, foreign, tokenBlacklist, batches, users, store, cookie,
                   autoLogins, pages,
                   shopVars>>

(* The requests of the model's clients, at most MaxInFlight at a time. *)
Arrive(r, c, token) ==
    /\ Cardinality(InFlight) < MaxInFlight
    /\ Receive(r, c, token)

(* Requests that arrive while others are being handled. *)
ArriveConcurrently(r, c, token) == Receive(r, c, token)

(* checkExistingAuth that lets every request through. *)
CheckExistingAuthSkipped(sess) == FALSE

(* checkExistingAuth: the session the request came with is logged in. *)
checkExistingAuth(sess) == Authenticated(sess)

(* The blacklist with the rejected token added. *)
BlacklistAfterRejectionBurns(bl, token) == blacklistToken(bl, token)

(* The blacklist after verifyJWT threw: the catch returns before           *)
(* blacklistToken is reached.                                              *)
BlacklistAfterRejection(bl, token) == bl

(* checkExistingAuth, then the handler up to its first await: the token's  *)
(* presence, verifyJWT, blacklistToken, and the user lookup is sent.       *)
Start(r) ==
    LET req == requests[r]
        v == verifyJWT(tokenBlacklist, req.token, now)
    IN  /\ req.pc = "start"
        /\ IF checkExistingAuth(req.sess)
           THEN /\ requests' = [requests EXCEPT ![r] = Respond(req, DashboardUrl)]
                /\ UNCHANGED tokenBlacklist
           ELSE IF TokenMissing(req.token)
           THEN /\ requests' = [requests EXCEPT ![r] =
                                    Respond(req, LoginError("missing_token"))]
                /\ UNCHANGED tokenBlacklist
           ELSE IF ~v.ok
           THEN /\ requests' = [requests EXCEPT ![r] =
                        Respond([req EXCEPT !.error = v.error],
                                VerificationFailureRedirect(v.error))]
                /\ tokenBlacklist' = BlacklistAfterRejection(tokenBlacklist, req.token)
           ELSE /\ tokenBlacklist' = blacklistToken(tokenBlacklist, req.token)
                /\ requests' = [requests EXCEPT ![r] =
                        [req EXCEPT !.pc = "lookup", !.decoded = v.decoded,
                                    !.verified = TRUE]]
        /\ UNCHANGED <<now, ticks, issued, foreign, batches, users, store, cookie, nextSid,
                       autoLogins, pages,
                   shopVars>>

(* db.get calls back: an error is caught as system_error; no row is        *)
(* user_not_found; else the session is filled and regenerate is called.    *)
Lookup(r, dbError) ==
    LET req == requests[r]
        user == LookupUser(users, req.decoded)
    IN  /\ req.pc = "lookup"
        /\ requests' = [requests EXCEPT ![r] =
               IF dbError THEN Respond(req, LoginError("system_error"))
               ELSE IF user = NoUser THEN Respond(req, LoginError("user_not_found"))
               ELSE [req EXCEPT !.pc = "regen", !.user = user,
                                !.sess = AutoLoginSession(user, now)]]
        /\ UNCHANGED <<now, ticks, issued, foreign, tokenBlacklist, batches, users, store,
                       cookie, nextSid, autoLogins, pages,
                   shopVars>>

(* The session id is kept. *)
SidKept(oldSid, next) == oldSid

(* store.generate: the id of the regenerated session is a new one. *)
RegeneratedSid(oldSid, next) == next

(* store.set of req.session.save: an error leaves the store as it was. *)
StoreAfterSave(st, sid, sess, err) == IF err THEN st ELSE StoreSet(st, sid, sess)

(* The end of a response (express-session's res.end): a session whose id   *)
(* is not the one the request started with counts as modified, so it is    *)
(* saved (once more, if the handler saved it) and its id is sent to the    *)
(* browser as the cookie.  endErr: this save fails.                        *)
EndOfResponse(st, sid, sess, endErr) == StoreAfterSave(st, sid, sess, endErr)

(* req.session.regenerate calls back: the store destroyed the old session  *)
(* (unless it failed) and the request has a new, empty session under a new *)
(* id; on an error the answer is session_error, which ends the response    *)
(* with the empty session; else the session is filled again and save is    *)
(* called.                                                                 *)
RegenerateDone(r, err, endErr) ==
    LET req == requests[r]
        fresh == [req EXCEPT !.sid = RegeneratedSid(req.sid, nextSid),
                            !.sess = EmptySession]
    IN  /\ req.pc = "regen"
        /\ nextSid <= MaxSid
        /\ nextSid' = nextSid + 1
        /\ store' = IF err THEN EndOfResponse(store, fresh.sid, fresh.sess, endErr)
                    ELSE StoreDestroy(store, req.sid)
        /\ cookie' = IF err THEN [cookie EXCEPT ![req.client] = fresh.sid] ELSE cookie
        /\ requests' = [requests EXCEPT ![r] =
               IF err THEN Respond(fresh, LoginError("session_error"))
               ELSE [fresh EXCEPT !.pc = "save",
                                  !.sess = AutoLoginSession(req.user, now)]]
        /\ UNCHANGED <<now, ticks, issued, foreign, tokenBlacklist, batches, users,
                       autoLogins, pages,
                   shopVars>>

(* req.session.save calls back, and the redirect ends the response: the    *)
(* session is saved again and its id goes to the browser as its cookie.    *)
SaveDone(r, err, endErr) ==
    LET req == requests[r]
    IN  /\ req.pc = "save"
        /\ store' = EndOfResponse(StoreAfterSave(store, req.sid, req.sess, err),
                                  req.sid, req.sess, endErr)
        /\ cookie' = [cookie EXCEPT ![req.client] = req.sid]
        /\ requests' = [requests EXCEPT ![r] =
               IF err THEN Respond(req, LoginError("session_error"))
               ELSE Respond(req, AutoLoginSuccessUrl)]
        /\ autoLogins' = IF err THEN autoLogins
                         ELSE autoLogins \cup {[token |-> req.token,
                                                userId |-> req.user.id,
                                                sid |-> req.sid]}
        /\ UNCHANGED <<now, ticks, issued, foreign, tokenBlacklist, batches, users, nextSid,
                       pages,
                   shopVars>>

(***************************************************************************)
(* POST /login and POST /logout.                                           *)
(***************************************************************************)
Login(c, username, password) ==
    LET known == cookie[c] \in DOMAIN store
        sid == IF known THEN cookie[c] ELSE nextSid
        sess == IF known THEN store[cookie[c]] ELSE EmptySession
        user == authenticateUser(users, username, password)
    IN  /\ user # NoUser
        /\ known \/ nextSid <= MaxSid
        /\ nextSid' = IF known THEN nextSid ELSE nextSid + 1
        /\ store' = StoreSet(store, sid, PasswordLoginSession(sess, user))
        /\ cookie' = [cookie EXCEPT ![c] = sid]
        /\ UNCHANGED <<now, ticks, issued, foreign, tokenBlacklist, batches, users, requests,
                       autoLogins, pages,
                   shopVars>>

(* req.session.destroy, then res.redirect('/login') from its callback; the *)
(* memory store's destroy reports no error.                                *)
Logout(c) ==
    /\ cookie[c] \in DOMAIN store
    /\ store' = StoreDestroy(store, cookie[c])
    /\ pages' = [pages EXCEPT ![c] = "/login"]
    /\ UNCHANGED <<now, ticks, issued, foreign, tokenBlacklist, batches, users, cookie,
                   nextSid, requests, autoLogins,
                   shopVars>>

Passwords == {"admin-pw", "wrong"}

(* The usernames and passwords posted to /login. *)
Credentials ==
    {<<"admin", "admin-pw">>, <<"staff", "staff-pw">>, <<"admin", "wrong">>}

(* requireAuth that lets every request through. *)
RequireAuthOpen(sess) == "next"

(* requireAuth: next() for a logged-in session, else the redirect. *)
requireAuth(sess) == IF Authenticated(sess) THEN "next" ELSE "/login"

(* A request of client c to a route behind requireAuth (GET /dashboard):   *)
(* the session middleware loads the session of the cookie, or a new one.   *)
Protected(c) ==
    LET sess == IF cookie[c] \in DOMAIN store THEN store[cookie[c]] ELSE EmptySession
    IN  /\ pages' = [pages EXCEPT ![c] = requireAuth(sess)]
        /\ UNCHANGED <<now, ticks, issued, foreign, tokenBlacklist, batches, users, store,
                       cookie, nextSid, requests, autoLogins,
                   shopVars>>

(***************************************************************************)
(* Strings the webhook code searches: sequences of characters.             *)
(***************************************************************************)
UpperCaseLetters ==
    <<"A", "B", "C", "D", "E", "F", "G", "H", "I", "J", "K", "L", "M", "N",
      "O", "P", "Q", "R", "S", "T", "U", "V", "W", "X", "Y", "Z">>
LowerCaseLetters ==
    <<"a", "b", "c", "d", "e", "f", "g", "h", "i", "j", "k", "l", "m", "n",
      "o", "p", "q", "r", "s", "t", "u", "v", "w", "x", "y", "z">>

(* String.prototype.toLowerCase that leaves every character as it is. *)
toLowerCaseNot(str) == str

(* String.prototype.toLowerCase, on the letters A to Z. *)
toLowerCase(str) ==
    [i \in 1..Len(str) |->
        IF \E k \in 1..26 : UpperCaseLetters[k] = str[i]
        THEN LowerCaseLetters[CHOOSE k \in 1..26 : UpperCaseLetters[k] = str[i]]
        ELSE str[i]]

(* String.prototype.includes *)
includes(str, part) ==
    \E i \in 0..(Len(str) - Len(part)) : SubSeq(str, i + 1, i + Len(part)) = part

(* undefined and null, where a string is expected. *)
Undefined == <<"undefined">>
Null == <<"null">>

(* The truthiness of a string value: not undefined, not null, not ''. *)
Truthy(str) == str \notin {Undefined, Null, <<>>}

CharityWord == <<"c", "h", "a", "r", "i", "t", "y">>

(* Property names and values of line items. *)
ChooseYourCharity == <<"C", "h", "o", "o", "s", "e", " ", "y", "o", "u", "r",
      " ", "C", "h", "a", "r", "i", "t", "y">>
CharityUpper == <<"C", "H", "A", "R", "I", "T", "Y">>
CharitySelection == <<"C", "h", "a", "r", "i", "t", "y", " ", "S", "e", "l",
      "e", "c", "t", "i", "o", "n">>
Donation == <<"D", "o", "n", "a", "t", "i", "o", "n">>
SelectFont == <<"S", "e", "l", "e", "c", "t", " ", "F", "o", "n", "t">>
ActForKids == <<"A", "c", "t", " ", "f", "o", "r", " ", "k", "i", "d", "s">>
Ocean == <<"O", "c", "e", "a", "n">>
AshleySouthine == <<"A", "s", "h", "l", "e", "y", " ", "S", "o", "u", "t",
      "h", "i", "n", "e">>
VipTag == <<"V", "I", "P">>

Property(name, value) == [name |-> name, value |-> value]
Item(properties) == [hasProperties |-> TRUE, properties |-> properties]
ItemWithoutProperties == [hasProperties |-> FALSE, properties |-> <<>>]

(* The line items of the orders placed: the payload of the test script,    *)
(* and orders that differ from it in the place, the case and the presence  *)
(* of the charity property.                                                *)
LineItemChoices ==
    {<<Item(<<Property(ChooseYourCharity, ActForKids),
              Property(SelectFont, AshleySouthine)>>)>>,
     <<ItemWithoutProperties,
       Item(<<Property(SelectFont, AshleySouthine), Property(CharityUpper, Ocean),
              Property(CharitySelection, ActForKids)>>)>>,
     <<Item(<<Property(SelectFont, AshleySouthine)>>),
       Item(<<Property(CharitySelection, ActForKids)>>),
       Item(<<Property(ChooseYourCharity, Ocean)>>)>>,
     <<Item(<<Property(Donation, Ocean), Property(Undefined, ActForKids),
              Property(<<>>, Ocean)>>),
       ItemWithoutProperties>>,
     <<Item(<<Property(ChooseYourCharity, <<>>)>>)>>,
     <<>>}

(* The loop over one item's properties: the first whose name is truthy and *)
(* contains 'charity' once lowered.                                        *)
RECURSIVE FindCharityProperty(_)
FindCharityProperty(properties) ==
    IF properties = <<>> THEN [found |-> FALSE, value |-> Null]
    ELSE LET property == Head(properties)
         IN  IF Truthy(property.name) /\ includes(toLowerCase(property.name), CharityWord)
             THEN [found |-> TRUE, value |-> property.value]
             ELSE FindCharityProperty(Tail(properties))

RECURSIVE extractCharityFromProperties(_)
extractCharityFromProperties(lineItems) ==
    IF lineItems = <<>> THEN Null
    ELSE LET item == Head(lineItems)
             hit == IF item.hasProperties THEN FindCharityProperty(item.properties)
                    ELSE [found |-> FALSE, value |-> Null]
         IN  IF hit.found THEN hit.value
             ELSE extractCharityFromProperties(Tail(lineItems))

(***************************************************************************)
(* The shop: orders, their tags, and the webhooks it sends.                *)
(***************************************************************************)
(* The tags an order is created with, and those the merchant sets. *)
TagChoices == {<<>>, <<VipTag>>}

(* order.tags of a payload: the tags joined with ', '. *)
RECURSIVE TagsString(_)
TagsString(tags) ==
    IF tags = <<>> THEN <<>>
    ELSE IF Len(tags) = 1 THEN tags[1]
    ELSE tags[1] \o <<",", " ">> \o TagsString(Tail(tags))

(* The length of a base64 SHA-256 digest. *)
DigestLength == 44

(* createHmac('sha256', secret).update(data).digest('base64') *)
createWebhookSignature(data, secret) ==
    [given |-> TRUE, body |-> data, key |-> secret, len |-> DigestLength]

(* The signatures a webhook request comes with: the shop's, one made with  *)
(* another key, a truncated one, none.                                     *)
Signatures(data) ==
    {createWebhookSignature(data, WebhookSecret),
     createWebhookSignature(data, "guess"),
     [createWebhookSignature(data, "guess") EXCEPT !.len = 7],
     MissingSignature(data)}

(* verifyWebhook: "true", "false", or "throws" (Buffer.from(undefined),    *)
(* or timingSafeEqual on buffers of different lengths).                    *)
verifyWebhook(secret, data, signature) ==
    IF secret = NoSecret THEN "true"
    ELSE LET hash == createWebhookSignature(data, secret)
         IN  IF ~signature.given THEN "throws"
             ELSE IF signature.len # hash.len THEN "throws"
             ELSE IF signature = hash THEN "true"
             ELSE "false"

(* The status of the handler's answer. *)
WebhookStatus(verified) ==
    IF verified = "throws" THEN 500 ELSE IF verified = "false" THEN 401 ELSE 200

(* orderStorage.set(order.id.toString(), orderData) *)
storeOrderData(storage, order) ==
    [o \in (DOMAIN storage) \cup {order.id} |->
        IF o = order.id
        THEN [id |-> order.id, customerEmail |-> order.email,
              charityValue |-> extractCharityFromProperties(order.line_items),
              status |-> "pending"]
        ELSE storage[o]]

(* The body of the PUT of updateOrderTags. *)
updateOrderTags(orderId, charityValue) == [id |-> orderId, tags |-> charityValue]

(* The guard of the orders/updated handler without the look at the tags. *)
NeedsTagAlways(order, charityValue) == Truthy(charityValue)

(* charityValue && !order.tags?.includes(charityValue) *)
NeedsTag(order, charityValue) ==
    Truthy(charityValue) /\ ~includes(TagsString(order.tags), charityValue)

Webhook(topic, order) == [topic |-> topic, order |-> order]

RemoveAt(seq, i) == SubSeq(seq, 1, i - 1) \o SubSeq(seq, i + 1, Len(seq))

(* A customer places an order; the shop sends orders/create. *)
ShopCreateOrder(o, lineItems, tags, email) ==
    LET order == [id |-> o, line_items |-> lineItems, tags |-> tags, email |-> email,
                  tagged |-> FALSE, fulfilled |-> FALSE]
    IN  /\ shopOrders[o] = NoOrder
        /\ shopOrders' = [shopOrders EXCEPT ![o] = order]
        /\ hooks' = hooks \cup {Webhook("orders/create", order)}
        /\ UNCHANGED <<loginVars, webhookSecret, edits, tagUpdates, orderStorage, emails,
                       hookAnswer>>

(* The merchant sets the tags of an order; the shop sends orders/updated. *)
ShopEditOrder(o, tags) ==
    LET order == [shopOrders[o] EXCEPT !.tags = tags]
    IN  /\ shopOrders[o] # NoOrder
        /\ edits < MaxEdits
        /\ tags # shopOrders[o].tags
        /\ edits' = edits + 1
        /\ shopOrders' = [shopOrders EXCEPT ![o] = order]
        /\ hooks' = hooks \cup {Webhook("orders/updated", order)}
        /\ UNCHANGED <<loginVars, webhookSecret, tagUpdates, orderStorage, emails,
                       hookAnswer>>

(* The order is fulfilled; the shop sends orders/fulfilled. *)
ShopFulfilOrder(o) ==
    LET order == [shopOrders[o] EXCEPT !.fulfilled = TRUE]
    IN  /\ shopOrders[o] # NoOrder
        /\ ~shopOrders[o].fulfilled
        /\ shopOrders' = [shopOrders EXCEPT ![o] = order]
        /\ hooks' = hooks \cup {Webhook("orders/fulfilled", order)}
        /\ UNCHANGED <<loginVars, webhookSecret, edits, tagUpdates, orderStorage, emails,
                       hookAnswer>>

(* The shop applies the PUT of updateOrderTags: the tags of the order are  *)
(* the tags of the request; the shop sends orders/updated.                 *)
ShopApplyTagUpdate(i) ==
    LET put == tagUpdates[i]
        order == [shopOrders[put.id] EXCEPT !.tags = <<put.tags>>, !.tagged = TRUE]
    IN  /\ shopOrders' = [shopOrders EXCEPT ![put.id] = order]
        /\ tagUpdates' = RemoveAt(tagUpdates, i)
        /\ hooks' = hooks \cup {Webhook("orders/updated", order)}
        /\ UNCHANGED <<loginVars, webhookSecret, edits, orderStorage, emails, hookAnswer>>

(* The PUT fails: updateOrderTags rethrows, the handler's catch logs. *)
ShopRejectTagUpdate(i) ==
    /\ tagUpdates' = RemoveAt(tagUpdates, i)
    /\ UNCHANGED <<loginVars, webhookSecret, shopOrders, edits, hooks, orderStorage,
                   emails, hookAnswer>>

(* What every webhook handler does with the request whatever its topic:    *)
(* the answer, and the webhook is taken when it was accepted.              *)
AnswerWebhook(h, signature, verified) ==
    /\ hookAnswer' = [topic |-> h.topic, body |-> h.order, signature |-> signature,
                      status |-> WebhookStatus(verified)]
    /\ hooks' = IF verified = "true" THEN hooks \ {h} ELSE hooks

(* POST /webhook/orders/create *)
WebhookOrdersCreate(h, signature) ==
    LET verified == verifyWebhook(webhookSecret, h.order, signature)
        order == h.order
        charityValue == extractCharityFromProperties(order.line_items)
    IN  /\ h.topic = "orders/create"
        /\ AnswerWebhook(h, signature, verified)
        /\ orderStorage' = IF verified = "true" THEN storeOrderData(orderStorage, order)
                           ELSE orderStorage
        /\ tagUpdates' = IF verified = "true" /\ Truthy(charityValue)
                         THEN Append(tagUpdates, updateOrderTags(order.id, charityValue))
                         ELSE tagUpdates
        /\ UNCHANGED <<loginVars, webhookSecret, shopOrders, edits, emails>>

(* POST /webhook/orders/updated *)
WebhookOrdersUpdated(h, signature) ==
    LET verified == verifyWebhook(webhookSecret, h.order, signature)
        order == h.order
        charityValue == extractCharityFromProperties(order.line_items)
    IN  /\ h.topic = "orders/updated"
        /\ AnswerWebhook(h, signature, verified)
        /\ tagUpdates' = IF verified = "true" /\ NeedsTag(order, charityValue)
                         THEN Append(tagUpdates, updateOrderTags(order.id, charityValue))
                         ELSE tagUpdates
        /\ UNCHANGED <<loginVars, webhookSecret, shopOrders, edits, orderStorage, emails>>

(* POST /webhook/orders/fulfilled *)
WebhookOrdersFulfilled(h, signature) ==
    LET verified == verifyWebhook(webhookSecret, h.order, signature)
        order == h.order
    IN  /\ h.topic = "orders/fulfilled"
        /\ AnswerWebhook(h, signature, verified)
        /\ emails' = IF verified = "true" /\ order.email # "" THEN emails + 1 ELSE emails
        /\ UNCHANGED <<loginVars, webhookSecret, shopOrders, edits, tagUpdates,
                       orderStorage>>

(* The shop's side and the webhook handlers. *)
ShopStep ==
    \/ \E o \in Orders, l \in LineItemChoices, t \in TagChoices,
          e \in {"", "test@example.com"} : ShopCreateOrder(o, l, t, e)
    \/ \E o \in Orders, t \in TagChoices : ShopEditOrder(o, t)
    \/ \E o \in Orders : ShopFulfilOrder(o)
    \/ \E i \in 1..Len(tagUpdates) : ShopApplyTagUpdate(i)
    \/ \E i \in 1..Len(tagUpdates) : ShopRejectTagUpdate(i)

WebhookStep ==
    \/ \E h \in hooks : \E g \in Signatures(h.order) : WebhookOrdersCreate(h, g)
    \/ \E h \in hooks : \E g \in Signatures(h.order) : WebhookOrdersUpdated(h, g)
    \/ \E h \in hooks : \E g \in Signatures(h.order) : WebhookOrdersFulfilled(h, g)

(* The steps of the GET /auto-login handler. *)
Handler ==
    \/ \E r \in Reqs : Start(r)
    \/ \E r \in Reqs, e \in BOOLEAN : Lookup(r, e)
    \/ \E r \in Reqs, e, f \in BOOLEAN : RegenerateDone(r, e, f)
    \/ \E r \in Reqs, e, f \in BOOLEAN : SaveDone(r, e, f)

Next ==
    \/ \E d \in TickSteps : Tick(d)
    \/ \E u \in IssuerUsers : IssueToken(u)
    \/ \E m \in BatchSizes : OtherAutoLogins(m)
    \/ \E r \in Reqs, c \in Clients, t \in issued \cup {foreign, NoToken} :
          Arrive(r, c, t)
    \/ Handler
    \/ \E c \in Clients, p \in Passwords : Login(c, "admin", p)
    \/ \E c \in Clients : Logout(c)
    \/ \E c \in Clients : Protected(c)
    \/ ShopStep
    \/ WebhookStep

(* The outside token is fixed. *)
InitHandoff == Init /\ foreign = LongLivedToken /\ webhookSecret = WebhookSecret

(* The outside token is a valid one or one signed with another secret. *)
InitSession ==
    Init /\ foreign \in {LongLivedToken, ForeignToken} /\ webhookSecret = WebhookSecret

(* Any outside token; the webhook secret is configured. *)
InitVerify == Init /\ webhookSecret = WebhookSecret

(* The webhooks: the secret configured or not. *)
InitWebhook == Init /\ foreign = LongLivedToken

(* Everything at once. *)
Spec == Init /\ [][Next]_vars

(* The environments the properties are checked under: each leaves out the  *)
(* operations its properties are not about.                                *)

(* Replay: issued tokens, the clock and other clients' auto-logins. *)
NextReplay ==
    \/ \E d \in TickSteps : Tick(d)
    \/ \E u \in IssuerUsers : IssueToken(u)
    \/ \E m \in BatchSizes : OtherAutoLogins(m)
    \/ \E r \in Reqs, c \in Clients, t \in issued : Arrive(r, c, t)
    \/ Handler

SpecReplay == InitHandoff /\ [][NextReplay]_vars

(* Verification: issued and outside tokens from one browser, and the clock. *)
NextVerify ==
    \/ \E d \in TickSteps : Tick(d)
    \/ \E u \in IssuerUsers : IssueToken(u)
    \/ \E r \in Reqs, t \in issued \cup {foreign, NoToken} : Arrive(r, "c1", t)
    \/ Handler

SpecVerify == InitVerify /\ [][NextVerify]_vars

(* Sessions: issued tokens, password login and logout. *)
NextSession ==
    \/ \E u \in IssuerUsers : IssueToken(u)
    \/ \E r \in Reqs, c \in Clients, t \in issued \cup {foreign, NoToken} :
          Arrive(r, c, t)
    \/ Handler
    \/ \E c \in Clients, p \in Passwords : Login(c, "admin", p)
    \/ \E c \in Clients : Logout(c)

SpecSession == InitSession /\ [][NextSession]_vars

(* Every slot may hold a request in flight, all with the issued token. *)
NextConcurrent ==
    \/ \E d \in TickSteps : Tick(d)
    \/ \E u \in IssuerUsers : IssueToken(u)
    \/ \E r \in Reqs, c \in Clients, t \in issued : ArriveConcurrently(r, c, t)
    \/ Handler

SpecConcurrent == InitHandoff /\ [][NextConcurrent]_vars

(* Access: one browser's auto-logins, password logins of both accounts,    *)
(* logout, and the routes behind requireAuth.                              *)
NextAccess ==
    \/ \E u \in IssuerUsers : IssueToken(u)
    \/ \E r \in Reqs, t \in issued : Arrive(r, "c1", t)
    \/ Handler
    \/ \E c \in Clients, cr \in Credentials : Login(c, cr[1], cr[2])
    \/ \E c \in Clients : Logout(c)
    \/ \E c \in Clients : Protected(c)

SpecAccess == InitHandoff /\ [][NextAccess]_vars

(* Webhooks: the shop, the merchant and the three webhook handlers. *)
NextWebhook ==
    \/ ShopStep
    \/ WebhookStep

SpecWebhook == InitWebhook /\ [][NextWebhook]_vars

(***************************************************************************)
(* Properties.                                                             *)
(***************************************************************************)
AlreadyUsedError == "Token verification failed: Token has already been used"
BadSignatureError == "Token verification failed: invalid signature"
MalformedError == "Token verification failed: jwt malformed"
EnvelopeExpiredError == "Token verification failed: jwt expired"
TooOldError == "Token verification failed: Token has expired"
NotActiveError == "Token verification failed: jwt not active"
MissingSubjectError ==
    "Token verification failed: Invalid token: missing user identification"

InvalidTokenUrl == LoginError("invalid_token")

(* The auto-logins that completed with token t. *)
SessionsOf(t) == {a \in autoLogins : a.token = t}

(* t would pass every check of verifyJWT but the blacklist's at time nowMs. *)
StillValid(t, nowMs) ==
    /\ t.parts = 3
    /\ t.sig = HS256(t.payload, JWT_SECRET)
    /\ t.payload.exp = NoExp \/ NowSeconds(nowMs) < t.payload.exp
    /\ t.payload.iat = NoIat \/ nowMs <= (t.payload.iat + 300) * 1000

CorrectlySigned(t) == t.parts = 3 /\ t.sig = HS256(t.payload, JWT_SECRET)

SignedWithOtherSecret(t) == t.parts = 3 /\ t.sig.key # JWT_SECRET

(* Request r is answered, or suspended, by the step that runs its handler  *)
(* from the start.                                                         *)
Started(r) == requests[r].pc = "start" /\ requests'[r].pc # "start"

(* C1: a token the issuer minted establishes at most one session: once an  *)
(* auto-login with it has completed, no later GET /auto-login with the     *)
(* same token completes again.                                             *)
C1_SucceedsExactlyOnce ==
    \A t \in issued : Cardinality(SessionsOf(t)) <= 1

(* C2: of the concurrent GET /auto-login requests that carry the same      *)
(* token at most one passes verification, and at most one session is       *)
(* established with it, in every interleaving of their steps.              *)
C2_AtMostOnePasses ==
    \A t \in issued :
        /\ Cardinality({r \in Reqs : requests[r].token = t /\ requests[r].verified}) <= 1
        /\ Cardinality(SessionsOf(t)) <= 1

(* One request is suspended after it passed verification, and another with *)
(* the same token has been rejected as already used meanwhile.             *)
C2_Witness ==
    \E r1, r2 \in Reqs :
        /\ r1 # r2
        /\ requests[r1].token = requests[r2].token
        /\ requests[r1].verified
        /\ requests[r1].pc \in {"lookup", "regen", "save"}
        /\ requests[r2].pc = "done"
        /\ requests[r2].error = AlreadyUsedError
        /\ requests[r2].redirect = InvalidTokenUrl

(* C3: a token that passed verification and was blacklisted is in          *)
(* tokenBlacklist for as long as it is unexpired.                          *)
C3_NeverForgotten ==
    \A r \in Reqs :
        (requests[r].verified /\ StillValid(requests[r].token, now))
            => BlacklistHas(tokenBlacklist, requests[r].token)

C5_OtherSecretNeverAccepted ==
    /\ \A r \in Reqs :
          SignedWithOtherSecret(requests[r].token)
              => /\ ~requests[r].verified
                 /\ requests[r].pc \in {"start", "done"}
                 /\ requests[r].pc = "done"
                       => requests[r].redirect \in {InvalidTokenUrl, DashboardUrl}
    /\ \A i \in 1..Len(tokenBlacklist) : ~SignedWithOtherSecret(tokenBlacklist[i].tok)
    /\ \A a \in autoLogins : ~SignedWithOtherSecret(a.token)
    /\ \A t \in issued :
          jwtVerify(t, JWT_SECRET, now).error \notin {"invalid signature", "jwt malformed"}

(* The token signed with the other secret was rejected for its signature,  *)
(* and a token of the issuer has passed verification.                      *)
C5_Witness ==
    /\ \E r \in Reqs :
          /\ requests[r].pc = "done"
          /\ requests[r].token = ForeignToken
          /\ requests[r].error = BadSignatureError
    /\ \E r \in Reqs : requests[r].token \in issued /\ requests[r].verified

(* C6: a token that passes verification has the expected audience and an   *)
(* expected issuer.                                                        *)
C6_AudienceAndIssuerEnforced ==
    \A r \in Reqs :
        requests[r].verified
            => /\ requests[r].token.payload.aud = ExpectedAudience
               /\ requests[r].token.payload.iss \in ExpectedIssuers

(* C7: every token the issuer emits has a userId or a username.            *)
C7_IssuerRequiresSubject ==
    \A t \in issued : TruthyId(t.payload.userId) \/ TruthyName(t.payload.username)

(* C8: GET /auto-login on a logged-in session answers /dashboard and       *)
(* leaves the blacklist, the session store, the cookies and the completed  *)
(* auto-logins as they were, whatever the token.                           *)
C8_ExistingSessionShortCircuits ==
    [][\A r \in Reqs :
          (Started(r) /\ Authenticated(requests[r].sess))
              => /\ requests'[r].pc = "done"
                 /\ requests'[r].redirect = DashboardUrl
                 /\ ~requests'[r].verified
                 /\ tokenBlacklist' = tokenBlacklist
                 /\ store' = store
                 /\ cookie' = cookie
                 /\ autoLogins' = autoLogins]_vars

(* A token was first presented on a logged-in session and answered with    *)
(* /dashboard, and later established a session for a client without one.   *)
C8_Witness ==
    \E t \in issued :
        /\ requests[1].pc = "done"
        /\ requests[1].token = t
        /\ requests[1].redirect = DashboardUrl
        /\ requests[2].pc = "done"
        /\ requests[2].token = t
        /\ requests[2].redirect = AutoLoginSuccessUrl
        /\ Cardinality(SessionsOf(t)) = 1

(* C9: GET /auto-login without a token, on a session that is not logged    *)
(* in, answers /login?error=missing_token at once: no verification, no     *)
(* lookup, and the blacklist and the sessions stay as they were.           *)
C9_MissingToken ==
    [][\A r \in Reqs :
          (Started(r) /\ ~Authenticated(requests[r].sess)
                      /\ requests[r].token = NoToken)
              => /\ requests'[r].pc = "done"
                 /\ requests'[r].redirect = LoginError("missing_token")
                 /\ ~requests'[r].verified
                 /\ requests'[r].error = ""
                 /\ tokenBlacklist' = tokenBlacklist
                 /\ store' = store
                 /\ cookie' = cookie
                 /\ autoLogins' = autoLogins]_vars

C9_Witness ==
    \E r \in Reqs :
        /\ requests[r].pc = "done"
        /\ requests[r].token = NoToken
        /\ requests[r].redirect = LoginError("missing_token")

(* C10: whatever check of verifyJWT failed, the answer is the redirect to  *)
(* /login?error=invalid_token.                                             *)
C10_OneRedirectForEveryFailure ==
    \A r \in Reqs :
        (requests[r].pc = "done" /\ requests[r].error # "")
            => /\ requests[r].error \in
                    {AlreadyUsedError, BadSignatureError, MalformedError,
                     NotActiveError, EnvelopeExpiredError, TooOldError,
                     MissingSubjectError}
               /\ requests[r].redirect = InvalidTokenUrl

(* Two requests failed verification for different reasons, one of them for *)
(* its expiry, and got the same redirect.                                  *)
C10_Witness ==
    \E r1, r2 \in Reqs :
        /\ requests[r1].pc = "done" /\ requests[r2].pc = "done"
        /\ requests[r1].error \in {EnvelopeExpiredError, TooOldError}
        /\ requests[r2].error \in {AlreadyUsedError, BadSignatureError, MalformedError,
                                   MissingSubjectError}
        /\ requests[r1].redirect = requests[r2].redirect

UserNotFoundUrl == LoginError("user_not_found")
SessionErrorUrl == LoginError("session_error")
SystemErrorUrl == LoginError("system_error")
MissingTokenUrl == LoginError("missing_token")

(* No row of the users table has the id or the username of the payload. *)
MatchesNoRow(decoded) ==
    ~\E u \in users : u.id = decoded.userId \/ u.username = decoded.username

(* The callback of the user lookup of request r runs in this step. *)
LookedUp(r) == requests[r].pc = "lookup" /\ requests'[r].pc # "lookup"

(* C11: when the subject of a verified token matches no row of the users   *)
(* table, the request ends at the lookup, in /login?error=user_not_found   *)
(* (system_error when the query itself fails); the users table, the        *)
(* session store and the cookies are unchanged and the request's session   *)
(* has no userId, username, autoLogin or loginTime.                        *)
C11_NoAccountCreated ==
    [][\A r \in Reqs :
          (LookedUp(r) /\ requests[r].verified /\ MatchesNoRow(requests[r].decoded))
              => /\ requests'[r].pc = "done"
                 /\ requests'[r].redirect \in {UserNotFoundUrl, SystemErrorUrl}
                 /\ requests[r].sess = EmptySession
                 /\ users' = users
                 /\ store' = store
                 /\ cookie' = cookie
                 /\ autoLogins' = autoLogins]_vars

(* The token the issuer minted for a user unknown to the users table was   *)
(* verified and answered with user_not_found; the table is as it was.      *)
C11_Witness ==
    \E r \in Reqs :
        /\ requests[r].pc = "done"
        /\ requests[r].verified
        /\ requests[r].token \in issued
        /\ requests[r].token.payload.userId = 999
        /\ requests[r].redirect = UserNotFoundUrl
        /\ users = InitUsers
        /\ autoLogins = {}

(* C12: a verified token is answered with user_not_found only when neither *)
(* its userId nor its username is that of a row of the users table.        *)
C12_UsernameFallback ==
    \A r \in Reqs :
        (requests[r].pc = "done" /\ requests[r].verified
                                /\ requests[r].redirect = UserNotFoundUrl)
            => MatchesNoRow(requests[r].token.payload)

(* C13: when verifyJWT throws for the token of a request, whatever the     *)
(* reason, tokenBlacklist after the request is what it was before, and the *)
(* request is answered with invalid_token.                                 *)
C13_FailedVerificationDoesNotBurn ==
    [][\A r \in Reqs :
          (/\ Started(r)
           /\ ~Authenticated(requests[r].sess)
           /\ requests[r].token # NoToken
           /\ ~verifyJWT(tokenBlacklist, requests[r].token, now).ok)
              => /\ tokenBlacklist' = tokenBlacklist
                 /\ ~requests'[r].verified
                 /\ requests'[r].redirect = InvalidTokenUrl]_vars

(* A token was rejected because it was not active yet, and the same token  *)
(* passed verification when it was presented again later.                  *)
C13_Witness ==
    \E r1, r2 \in Reqs :
        /\ requests[r1].pc = "done"
        /\ requests[r1].error = NotActiveError
        /\ requests[r2].token = requests[r1].token
        /\ requests[r2].verified
        /\ BlacklistHas(tokenBlacklist, requests[r2].token)

(* C14: after a request that passed verification ended in user_not_found,  *)
(* session_error or system_error, its token is in tokenBlacklist (at least *)
(* for as long as it would pass the other checks), so that presenting it   *)
(* again is rejected as already used.                                      *)
C14_FailedRequestStaysConsumed ==
    \A r \in Reqs :
        (/\ requests[r].pc = "done"
         /\ requests[r].verified
         /\ requests[r].redirect \in {UserNotFoundUrl, SessionErrorUrl, SystemErrorUrl}
         /\ StillValid(requests[r].token, now))
            => BlacklistHas(tokenBlacklist, requests[r].token)

(* Request r, past its start, is answered by this step. *)
Answered(r) == requests[r].pc \in {"lookup", "regen", "save"} /\ requests'[r].pc = "done"

(* C15: the step that answers session_error or system_error leaves no      *)
(* authenticated session behind: no session of the store has become        *)
(* authenticated, and neither the id the request arrived with nor a        *)
(* regenerated id names a session with a userId.                           *)
C15_NoPartialSession ==
    [][\A r \in Reqs :
          (Answered(r) /\ requests'[r].redirect \in {SessionErrorUrl, SystemErrorUrl})
              => /\ \A s \in DOMAIN store' :
                       Authenticated(store'[s]) => (s \in DOMAIN store /\ store[s] = store'[s])
                 /\ \A s \in {requests[r].arrivedSid, requests[r].sid, nextSid} :
                       s \in DOMAIN store' => ~Authenticated(store'[s])
                 /\ autoLogins' = autoLogins]_vars

(* C16: the step that completes an auto-login saves the session under an   *)
(* id that is not the one the request arrived with, is in no browser's     *)
(* cookie and names no stored session; the id the request arrived with     *)
(* names no authenticated session; the new session has the userId and      *)
(* username of the local user the token names, autoLogin = true and a      *)
(* loginTime, and its id goes to the browser.                              *)
C16_SessionIdRegenerated ==
    [][\A r \in Reqs :
          (requests[r].pc = "save" /\ requests'[r].redirect = AutoLoginSuccessUrl)
              => LET req == requests[r]
                 IN  /\ req.sid # req.arrivedSid
                     /\ \A c \in Clients : cookie[c] # req.sid
                     /\ req.sid \notin DOMAIN store
                     /\ req.arrivedSid \in DOMAIN store'
                           => ~Authenticated(store'[req.arrivedSid])
                     /\ req.sid \in DOMAIN store'
                     /\ cookie'[req.client] = req.sid
                     /\ \E u \in users :
                           /\ u.id = req.decoded.userId \/ u.username = req.decoded.username
                           /\ store'[req.sid].userId = u.id
                           /\ store'[req.sid].username = u.username
                     /\ store'[req.sid].autoLogin = TRUE
                     /\ store'[req.sid].loginTime # NoTime]_vars

(* An auto-login completed for a browser after an earlier session id had   *)
(* been generated and destroyed: the session is stored under the second id *)
(* with all four attributes.                                               *)
C16_Witness ==
    \E a \in autoLogins, c \in Clients :
        /\ a.sid = 2
        /\ cookie[c] = 2
        /\ 1 \notin DOMAIN store
        /\ 2 \in DOMAIN store
        /\ store[2] = [userId |-> 1, username |-> "admin", autoLogin |-> TRUE,
                       loginTime |-> now]

(* C17: a session with autoLogin = true is written only by the auto-login  *)
(* handler, for the user its verified token resolved to: a step that       *)
(* changes such a session, or creates one, is the save of a verified       *)
(* request for that session id and that user.                              *)
C17_AutoLoginFlagOnlyFromAutoLogin ==
    [][\A s \in DOMAIN store' :
          (store'[s].autoLogin /\ (s \notin DOMAIN store \/ store[s] # store'[s]))
              => \E r \in Reqs :
                    /\ requests[r].pc = "save"
                    /\ requests[r].sid = s
                    /\ requests[r].verified
                    /\ store'[s].userId = requests[r].user.id
                    /\ store'[s].username = requests[r].user.username]_vars

(* The redirects GET /auto-login may answer with. *)
PublicRedirects ==
    {DashboardUrl, AutoLoginSuccessUrl, MissingTokenUrl, InvalidTokenUrl,
     UserNotFoundUrl, SessionErrorUrl, SystemErrorUrl}

(* C18: a request of GET /auto-login that was answered has one redirect,   *)
(* which is /dashboard, /dashboard?auto_login=success or /login?error=     *)
(* with one of the five codes; a request not yet answered has none.        *)
C18_OneKnownRedirect ==
    \A r \in Reqs :
        /\ requests[r].pc = "done" => requests[r].redirect \in PublicRedirects
        /\ requests[r].pc # "done" => requests[r].redirect = ""

(* One request failed verification and was answered with invalid_token,    *)
(* with the error text kept out of the URL; another ended in a session     *)
(* error.                                                                  *)
C18_Witness ==
    \E r1, r2 \in Reqs :
        /\ requests[r1].pc = "done"
        /\ requests[r1].error # ""
        /\ requests[r1].redirect = InvalidTokenUrl
        /\ requests[r2].pc = "done"
        /\ requests[r2].redirect = SessionErrorUrl

(* C19: blacklistToken(t) called twice in a row leaves tokenBlacklist as   *)
(* one call leaves it, from every blacklist the program reaches.           *)
C19_BlacklistTokenIdempotent ==
    \A t \in issued \cup CraftedTokens :
        blacklistToken(blacklistToken(tokenBlacklist, t), t)
            = blacklistToken(tokenBlacklist, t)

(* The blacklist is full, so that the first call for a token that is not   *)
(* in it triggers the cleanup.                                             *)
C19_Witness ==
    /\ BlacklistSize(tokenBlacklist) = BlacklistCap
    /\ \E t \in issued :
          /\ ~BlacklistHas(tokenBlacklist, t)
          /\ BlacklistSize(blacklistToken(tokenBlacklist, t)) = BlacklistKeep
          /\ BlacklistHas(blacklistToken(tokenBlacklist, t), t)

(* The session stored under s gets a userId, or another one, in this step. *)
BecomesAuthenticated(s) ==
    /\ s \in DOMAIN store'
    /\ Authenticated(store'[s])
    /\ s \notin DOMAIN store \/ store[s].userId # store'[s].userId

(* C20: a stored session gets its userId only from the save of a verified  *)
(* auto-login request whose user is a row of the users table, or from a    *)
(* password login of an account of the table; a route behind requireAuth   *)
(* is served exactly when the session of the request holds a userId, and   *)
(* answers with the redirect to /login otherwise.                          *)
C20_AuthenticatedOnlyByLogin ==
    [][/\ \A s \in Sids \cup {NoSid} :
             BecomesAuthenticated(s)
                 => \/ \E r \in Reqs :
                          /\ requests[r].pc = "save"
                          /\ requests[r].sid = s
                          /\ requests[r].verified
                          /\ requests[r].user \in users
                          /\ store'[s].userId = requests[r].user.id
                    \/ \E c \in Clients, row \in users :
                          /\ requests' = requests
                          /\ cookie'[c] = s
                          /\ store'[s].userId = row.id
                          /\ store'[s].username = row.username
       /\ \A c \in Clients :
             (pages'[c] # pages[c] /\ store' = store)
                 => /\ pages'[c] \in {"next", "/login"}
                    /\ pages'[c] = "next"
                          <=> /\ cookie[c] \in DOMAIN store
                              /\ Authenticated(store[cookie[c]])]_vars

(* The browser that completed an auto-login was served a protected route,  *)
(* and the browser without a session was sent to /login.                   *)
C20_Witness ==
    /\ pages["c1"] = "next"
    /\ pages["c2"] = "/login"
    /\ cookie["c1"] \in DOMAIN store
    /\ store[cookie["c1"]].autoLogin
    /\ \E a \in autoLogins : a.sid = cookie["c1"]
    /\ cookie["c2"] \notin DOMAIN store

(* The error of the first check of verifyJWT that token t fails, the       *)
(* checks taken in the order: blacklist, structure, signature, not-before, *)
(* envelope expiry, subject, age; "" when it fails none.                   *)
FirstFailure(bl, t, nowMs) ==
    IF BlacklistHas(bl, t) THEN AlreadyUsedError
    ELSE IF t.parts # 3 THEN MalformedError
    ELSE IF t.sig.signed # t.payload \/ t.sig.key # JWT_SECRET THEN BadSignatureError
    ELSE IF t.payload.nbf # NoNbf /\ t.payload.nbf * 1000 > nowMs THEN NotActiveError
    ELSE IF t.payload.exp # NoExp /\ t.payload.exp * 1000 <= nowMs - (nowMs % 1000)
         THEN EnvelopeExpiredError
    ELSE IF t.payload.userId \in {NoId, 0} /\ t.payload.username \in {NoName, ""}
         THEN MissingSubjectError
    ELSE IF t.payload.iat # NoIat /\ nowMs > (t.payload.iat + 300) * 1000
         THEN TooOldError
    ELSE ""

(* C24: verifyJWT reports the first check that fails in the order          *)
(* blacklist, signature and envelope, subject, age: its error is that of   *)
(* the first failing check, and a token in the blacklist is reported as    *)
(* already used whatever else is wrong with it.                            *)
C24_ChecksInOrder ==
    \A t \in issued \cup {foreign} :
        /\ verifyJWT(tokenBlacklist, t, now).error
              = FirstFailure(tokenBlacklist, t, now)
        /\ verifyJWT(tokenBlacklist, t, now).ok
              <=> FirstFailure(tokenBlacklist, t, now) = ""
        /\ verifyJWT(BlacklistAdd(tokenBlacklist, t), t, now).error = AlreadyUsedError

(* A consumed token that has expired since was reported as already used,   *)
(* and a token without a subject that is more than 300 s old was reported  *)
(* as missing user identification.                                         *)
C24_Witness ==
    \E r1, r2 \in Reqs :
        /\ requests[r1].pc = "done"
        /\ requests[r1].error = AlreadyUsedError
        /\ ~StillValid(requests[r1].token, now)
        /\ requests[r2].pc = "done"
        /\ requests[r2].token = SubjectlessLongLivedToken
        /\ requests[r2].error = MissingSubjectError
        /\ now > (requests[r2].token.payload.iat + 300) * 1000

(* C25: tokenBlacklist never holds more than 1000 tokens; after the        *)
(* blacklistToken(t) of a verified request it contains t, and when adding  *)
(* t made the size exceed 1000 it holds exactly the last 500 of the tokens *)
(* it held with t added.                                                   *)
C25_ReplaySetBounded ==
    [][/\ BlacklistSize(tokenBlacklist') <= BlacklistCap
       /\ \A r \in Reqs :
             (Started(r) /\ requests'[r].verified)
                 => LET t == requests[r].token
                        added == BlacklistAdd(tokenBlacklist, t)
                        size == BlacklistSize(added)
                    IN  /\ BlacklistHas(tokenBlacklist', t)
                        /\ size <= BlacklistCap => tokenBlacklist' = added
                        /\ size > BlacklistCap
                              => /\ BlacklistSize(tokenBlacklist') = BlacklistKeep
                                 /\ tokenBlacklist'
                                       = DropFirst(added, size - BlacklistKeep)]_vars

(* The token of a request was the 1001st: the set was cut down to the 499  *)
(* tokens inserted before it and the token itself.                         *)
C25_Witness ==
    /\ BlacklistSize(tokenBlacklist) = BlacklistKeep
    /\ Len(tokenBlacklist) = 2
    /\ tokenBlacklist[1] = [tok |-> OtherTokens, n |-> BlacklistKeep - 1]
    /\ tokenBlacklist[2].tok \in issued

(* C28: the token of every request that passes verifyJWT carries an iat    *)
(* that does not lie after the moment of verification and is at most      *)
(* 300 s before it: its age is between 0 and 300 s.                        *)
C28_IssuedAtPresentAndPast ==
    [][\A r \in Reqs :
          (Started(r) /\ requests'[r].verified)
              => /\ requests[r].token.payload.iat # NoIat
                 /\ requests[r].token.payload.iat * 1000 <= now
                 /\ now <= (requests[r].token.payload.iat + MaxTokenAge) * 1000]_vars

(* The purpose and website values a signer may put into a payload. *)
Purposes == {"auto-login", "password-reset"}
Websites == {"shopify-app", "another-site"}

(* Token t with purpose p and website w, signed again with the secret. *)
WithPurpose(t, p, w) ==
    SignedToken([t.payload EXCEPT !.purpose = p, !.website = w])

(* C30: two correctly signed tokens that differ only in purpose and        *)
(* website, both consumed or both not, get the same result from verifyJWT  *)
(* and, when they pass, resolve to the same user and the same session      *)
(* fields.                                                                 *)
C30_PurposeNotConsulted ==
    \A t \in issued \cup {foreign} :
        CorrectlySigned(t)
            => \A p \in Purposes, w \in Websites :
                 LET v == WithPurpose(t, p, w)
                     a == verifyJWT(tokenBlacklist, t, now)
                     b == verifyJWT(tokenBlacklist, v, now)
                 IN  (BlacklistHas(tokenBlacklist, t) <=> BlacklistHas(tokenBlacklist, v))
                         => /\ a.ok = b.ok
                            /\ a.error = b.error
                            /\ a.ok => /\ LookupUser(users, a.decoded)
                                             = LookupUser(users, b.decoded)
                                        /\ AutoLoginSession(LookupUser(users, a.decoded), now)
                                             = AutoLoginSession(LookupUser(users, b.decoded), now)

(* A token signed for another purpose by another website passed            *)
(* verification and established the session of the user it names.          *)
C30_Witness ==
    \E r \in Reqs :
        /\ requests[r].token = OtherPurposeToken
        /\ requests[r].verified
        /\ requests[r].pc = "done"
        /\ \E a \in autoLogins :
              /\ a.token = OtherPurposeToken
              /\ a.userId = OtherPurposeToken.payload.userId

(* The session the store holds for the cookie of client c is authenticated. *)
LoggedIn(st, ck, c) == ck[c] \in DOMAIN st /\ Authenticated(st[ck[c]])

C27_LoginChangesOnlyUser ==
    [][\A sid \in Sids :
          (/\ requests' = requests
           /\ sid \in DOMAIN store'
           /\ sid \notin DOMAIN store \/ store'[sid] # store[sid])
              => LET before == IF sid \in DOMAIN store THEN store[sid] ELSE EmptySession
                 IN  /\ store'[sid].autoLogin = before.autoLogin
                     /\ store'[sid].loginTime = before.loginTime
                     /\ \E row \in users : /\ store'[sid].userId = row.id
                                            /\ store'[sid].username = row.username
                     /\ \E c \in Clients :
                           /\ cookie'[c] = sid
                           /\ sid \in DOMAIN store => cookie[c] = sid
                     /\ \A o \in DOMAIN store : o # sid => /\ o \in DOMAIN store'
                                                           /\ store'[o] = store[o]]_vars

(* The session an auto-login established for admin was taken over by a     *)
(* password login of staff: same id, autoLogin and loginTime kept.         *)
C27_Witness ==
    \E a \in autoLogins :
        /\ a.sid \in DOMAIN store
        /\ a.userId = 1
        /\ store[a.sid].userId = 2
        /\ store[a.sid].autoLogin
        /\ store[a.sid].loginTime # NoTime

(* The tags of an order as a set. *)
TagSet(tags) == {tags[i] : i \in 1..Len(tags)}

(* A tag update was applied in this step to order o and changed its tags. *)
TagUpdateApplied(o) ==
    /\ Len(tagUpdates') < Len(tagUpdates)
    /\ shopOrders'[o].tags # shopOrders[o].tags

(* C21: when a tag update is applied to an order, the order's tags contain *)
(* the charity value of its line items and every tag it had before.        *)
C21_TagAddedToTheOthers ==
    [][\A o \in Orders :
          TagUpdateApplied(o)
              => /\ extractCharityFromProperties(shopOrders[o].line_items)
                       \in TagSet(shopOrders'[o].tags)
                 /\ TagSet(shopOrders[o].tags) \subseteq TagSet(shopOrders'[o].tags)]_vars

(* The signature of the last webhook request is not the HMAC of its body   *)
(* under the configured secret.                                            *)
SignatureDoesNotVerify(answer) ==
    /\ webhookSecret # NoSecret
    /\ answer.signature # createWebhookSignature(answer.body, webhookSecret)

(* C22: a webhook request whose signature does not verify against the      *)
(* configured secret is answered 401, and it stores no order, sends no tag *)
(* update and sends no email.                                              *)
C22_BadSignatureUnauthorized ==
    [][(hookAnswer' # hookAnswer /\ SignatureDoesNotVerify(hookAnswer'))
          => /\ hookAnswer'.status = 401
             /\ orderStorage' = orderStorage
             /\ tagUpdates' = tagUpdates
             /\ emails' = emails]_vars

(* The name contains the letters of 'charity' in a row, each in either     *)
(* case.                                                                   *)
NameHasCharity(name) ==
    /\ name # Undefined
    /\ \E k \in 0..(Len(name) - Len(CharityWord)) :
          \A m \in 1..Len(CharityWord) : name[k + m] \in {CharityWord[m], CharityUpper[m]}

(* The places <<item, property>> of the properties with such a name. *)
CharityPlaces(lineItems) ==
    {pl \in UNION {{<<i, j>> : j \in 1..Len(lineItems[i].properties)} :
                      i \in 1..Len(lineItems)} :
        /\ lineItems[pl[1]].hasProperties
        /\ NameHasCharity(lineItems[pl[1]].properties[pl[2]].name)}

(* The first place: the least item, and in it the least property. *)
FirstPlace(places) ==
    CHOOSE pl \in places :
        \A q \in places : pl[1] < q[1] \/ (pl[1] = q[1] /\ pl[2] <= q[2])

(* The value at the first place, null when there is none. *)
FirstCharityValue(lineItems) ==
    LET places == CharityPlaces(lineItems)
    IN  IF places = {} THEN Null
        ELSE lineItems[FirstPlace(places)[1]].properties[FirstPlace(places)[2]].value

(* C23: extractCharityFromProperties returns the value of the first        *)
(* property, by line item and then by property, whose name contains        *)
(* 'charity' in any case, and null when there is none; so for the line     *)
(* items of every order placed and for the value stored with every order.  *)
C23_FirstCharityProperty ==
    /\ \A o \in Orders :
          extractCharityFromProperties(shopOrders[o].line_items)
              = FirstCharityValue(shopOrders[o].line_items)
    /\ \A o \in DOMAIN orderStorage :
          orderStorage[o].charityValue = FirstCharityValue(shopOrders[o].line_items)

(* An order whose first item has no properties array and whose second item *)
(* has two charity properties, the first in capitals, was stored with the  *)
(* value of the first of the two.                                          *)
C23_Witness ==
    \E o \in DOMAIN orderStorage :
        /\ Len(shopOrders[o].line_items) = 2
        /\ ~shopOrders[o].line_items[1].hasProperties
        /\ Cardinality(CharityPlaces(shopOrders[o].line_items)) = 2
        /\ orderStorage[o].charityValue = Ocean
        /\ hookAnswer.status = 200

(* This step's orders/updated webhook issued a tag update. *)
UpdatedWebhookIssuedTagUpdate ==
    /\ Len(tagUpdates') > Len(tagUpdates)
    /\ hookAnswer'.topic = "orders/updated"

(* C29 as stated: an orders/updated webhook issues a tag update only for   *)
(* an order whose tags do not contain the charity value and to which no    *)
(* tag update has been applied.                                            *)
C29_NoTagUpdateOnceTagged ==
    [][UpdatedWebhookIssuedTagUpdate
          => /\ ~includes(TagsString(hookAnswer'.body.tags),
                          extractCharityFromProperties(hookAnswer'.body.line_items))
             /\ ~shopOrders[hookAnswer'.body.id].tagged]_vars

(* C29, amended: an orders/updated webhook issues a tag update only when   *)
(* the tags of its payload do not contain the charity value, and the       *)
(* webhook the shop sends for an applied tag update carries tags that do.  *)
C29_NoTagUpdateForTaggedPayload ==
    [][/\ UpdatedWebhookIssuedTagUpdate
             => /\ Truthy(extractCharityFromProperties(hookAnswer'.body.line_items))
                /\ ~includes(TagsString(hookAnswer'.body.tags),
                             extractCharityFromProperties(hookAnswer'.body.line_items))
       /\ Len(tagUpdates') < Len(tagUpdates)
             => \A h \in hooks' \ hooks :
                    includes(TagsString(h.order.tags),
                             extractCharityFromProperties(h.order.line_items))]_vars

(* The orders/updated webhook of an applied tag update was accepted and    *)
(* issued no tag update.                                                   *)
C29_Witness ==
    /\ hookAnswer.topic = "orders/updated"
    /\ hookAnswer.status = 200
    /\ hookAnswer.body.tagged
    /\ hookAnswer.body.tags = <<ActForKids>>
    /\ tagUpdates = <<>>
    /\ hooks = {}

====
